---- MODULE Spec2Model ----
(***************************************************************************)
(* Model of bot.py: the Slack task bot.  Three handlers (/assign, /tasks   *)
(* and the app_mention event) run against a PostgreSQL datastore holding   *)
(* the tables members, tasks, meetings and transcription.                  *)
(*                                                                         *)
(* One handler invocation is followed at a time, statement group by        *)
(* statement group; the handlers share no in-process state (each opens its *)
(* own connections), so what else runs against the datastore shows up only *)
(* as a change of the tables between two steps (MemberDeleted).            *)
(*                                                                         *)
(* Text is a sequence of one-character strings, so that str.split, " ".join*)
(* and ILIKE are computed as the code and the datastore compute them.      *)
(***************************************************************************)
EXTENDS Integers, Sequences, FiniteSets, TLC

\* How many requests the bot receives in one behaviour.
MaxRequests == 1

\* bot.py:284  timedelta(days=3)
DefaultDays == 3

\* bot.py:121  len(parts) < 3
MinParts == 3

-----------------------------------------------------------------------------
(* Text *)

Whitespace == {" ", "\t"}

\* str.lower on the characters in use
Lower(c) ==
    CASE c = "A" -> "a"
      [] c = "M" -> "m"
      [] OTHER -> c

RECURSIVE LowerStr(_)
LowerStr(s) == IF s = <<>> THEN <<>> ELSE <<Lower(Head(s))>> \o LowerStr(Tail(s))

RECURSIVE SplitFrom(_, _, _)
SplitFrom(s, cur, out) ==
    IF s = <<>>
    THEN IF cur = <<>> THEN out ELSE Append(out, cur)
    ELSE IF Head(s) \in Whitespace
         THEN SplitFrom(Tail(s), <<>>, IF cur = <<>> THEN out ELSE Append(out, cur))
         ELSE SplitFrom(Tail(s), Append(cur, Head(s)), out)

\* str.split() with no argument: runs of whitespace separate, none at the ends
Split(s) == SplitFrom(s, <<>>, <<>>)

RECURSIVE Join(_, _)
\* sep.join(parts)
Join(sep, parts) ==
    IF parts = <<>> THEN <<>>
    ELSE IF Len(parts) = 1 THEN parts[1]
    ELSE parts[1] \o sep \o Join(sep, Tail(parts))

RECURSIVE LikeMatch(_, _)
\* PostgreSQL's  s ILIKE p : % is any run of characters, _ any one character,
\* every other character matches itself whatever its case
LikeMatch(p, s) ==
    IF p = <<>> THEN s = <<>>
    ELSE IF Head(p) = "%"
         THEN LikeMatch(Tail(p), s) \/ (s /= <<>> /\ LikeMatch(p, Tail(s)))
         ELSE /\ s /= <<>>
              /\ (Head(p) = "_" \/ Lower(Head(p)) = Lower(Head(s)))
              /\ LikeMatch(Tail(p), Tail(s))

-----------------------------------------------------------------------------
(* Python values: None, a str, a date (day of the current month) *)

PyNone == [t |-> "none", s |-> <<>>, d |-> 0]
PyStr(s) == [t |-> "str", s |-> s, d |-> 0]
PyDate(d) == [t |-> "date", s |-> <<>>, d |-> d]

\* bool(v): None and "" are falsy, a date is always truthy
Truthy(v) ==
    CASE v.t = "none" -> FALSE
      [] v.t = "str" -> v.s /= <<>>
      [] OTHER -> TRUE

\* str(v) as the f-string  f"%{member_name}%"  formats it
Format(v) ==
    CASE v.t = "none" -> <<"N", "o", "n", "e">>
      [] v.t = "str" -> v.s
      [] OTHER -> <<"d">>

\* f"%{member_name}%"
LikePattern(s) == <<"%">> \o s \o <<"%">>

-----------------------------------------------------------------------------
(* The texts in use *)

S_assign_task == <<"a","s","s","i","g","n","_","t","a","s","k">>
S_view_tasks == <<"v","i","e","w","_","t","a","s","k","s">>
S_view_meetings == <<"v","i","e","w","_","m","e","e","t","i","n","g","s">>
S_manager == <<"m","a","n","a","g","e","r">>

\* member_name fragments: "an" matches Ana and Anaya, "ay" only Anaya, "z" nobody
NameFragments == {<<"a","n">>, <<"a","y">>, <<"z">>}

\* deadline texts: "7" is a date (the 7th), "x" is not
DeadlineTexts == {<<"7">>, <<"x">>}

\* the day-of-month literals dateutil recognises among the tokens in use
DayLiteral(tok) ==
    CASE tok = <<"7">> -> 7
      [] OTHER -> 0

\* the readings of datetime.today().date(): a day of the current month
TodayReadings == {10, 11}

\* command["text"] of /assign
AssignTexts ==
    { <<>>,
      <<"a","n">>,
      <<"a","n"," ","7">>,
      <<"a","n"," ","f","x"," ","7">>,
      <<"a","n"," ","f","x"," ","x">>,
      <<"a","y"," ","\t","f","x"," ","u","p"," "," ","7"," ">>,
      <<"z"," ","f","x"," ","7">> }

\* command["text"] of /tasks
TasksTexts == {<<>>, <<"a","n">>, <<"a","y">>, <<"z">>}

\* body["event"]["user"], command["user_id"]: U1 and U2 are members, U9 is not
Users == {"U1", "U2", "U9"}

-----------------------------------------------------------------------------
(* Deadline parser *)

\* tokens of the text that dateutil recognises as a date, in order
DateTokens(s) == SelectSeq(Split(s), LAMBDA tok : DayLiteral(tok) /= 0)

\* parse_deadline(text): parser.parse(text, fuzzy=True).date(), None when it
\* raises (no date in the text, or text that is not a str)
parse_deadline(text) ==
    IF text.t /= "str" THEN PyNone
    ELSE IF DateTokens(text.s) = <<>> THEN PyNone
    ELSE PyDate(DayLiteral(DateTokens(text.s)[1]))

-----------------------------------------------------------------------------
(* Language service *)

\* what json.loads gives: a dict with the four keys .get reads, or a value
\* that is no dict (list, str, number, bool, null) of which only bool() matters
AiDict(i, m, d, dl) ==
    [t |-> "dict", truthy |-> TRUE,
     intent |-> i, member_name |-> m, description |-> d, deadline |-> dl]
AiEmptyDict ==
    [t |-> "dict", truthy |-> FALSE,
     intent |-> PyNone, member_name |-> PyNone, description |-> PyNone, deadline |-> PyNone]
AiOther(b) ==
    [t |-> "other", truthy |-> b,
     intent |-> PyNone, member_name |-> PyNone, description |-> PyNone, deadline |-> PyNone]
AiNone == AiOther(FALSE)

\* response.choices[0].message.content: text that is JSON (val is what it
\* decodes to) or is not
RawJson(v) == [json |-> TRUE, val |-> v]
RawNotJson == [json |-> FALSE, val |-> AiNone]

RawResponses ==
    {RawNotJson, RawJson(AiOther(FALSE)), RawJson(AiOther(TRUE)), RawJson(AiEmptyDict)}
    \cup {RawJson(AiDict(i, PyNone, PyNone, PyNone)) :
            i \in {PyNone, PyStr(<<"h","i">>), PyStr(S_view_meetings)}}
    \cup {RawJson(AiDict(PyStr(S_view_tasks), m, PyStr(<<>>), PyStr(<<>>))) :
            m \in {PyNone, PyStr(<<>>)} \cup {PyStr(f) : f \in NameFragments}}
    \cup {RawJson(AiDict(PyStr(S_assign_task), m, d, dl)) :
            m \in {PyStr(<<>>)} \cup {PyStr(f) : f \in NameFragments},
            d \in {PyStr(<<>>), PyStr(<<"f","x">>)},
            dl \in {PyNone, PyStr(<<>>)} \cup {PyStr(x) : x \in DeadlineTexts}}

\* extract_intent answering a decode failure with a dict that has no intent
extract_intent_DictOnFailure(raw) ==
    IF raw.json THEN raw.val ELSE AiDict(PyNone, PyNone, PyNone, PyNone)

\* extract_intent: json.loads(raw), None when it raises
extract_intent(raw) == IF raw.json THEN raw.val ELSE AiNone

-----------------------------------------------------------------------------
(* Datastore *)

Member(id, uid, name, designation) ==
    [member_id |-> id, slack_user_id |-> uid, member_name |-> name,
     designation |-> designation]

AllMembers ==
    { Member(1, "U1", <<"A","n","a">>, <<"M","a","n","a","g","e","r">>),
      Member(2, "U2", <<"A","n","a","y","a">>, <<"d","e","v">>) }

Task(id, desc, dl) == [member_id |-> id, description |-> desc, deadline |-> dl]

\* what tasks holds when the bot starts: nothing, or rows that earlier mentions
\* inserted (one for Ana with a parsed deadline, one for Anaya with the default)
InitialTasks ==
    { <<>>,
      << Task(1, PyStr(<<"f","x">>), PyDate(7)),
         Task(2, PyStr(<<"f","x">>), PyDate(13)) >> }

MeetingTables ==
    { [meetings |-> {}, transcription |-> {}],
      [meetings |-> { [meeting_id |-> 1, meeting_date |-> 3, transcription_id |-> 1],
                      [meeting_id |-> 2, meeting_date |-> 5, transcription_id |-> 2] },
       transcription |-> { [transcription_id |-> 1, transcription_summary |-> "s1"],
                           [transcription_id |-> 2, transcription_summary |-> "s2"] }] }

\* SELECT designation FROM members WHERE slack_user_id = uid
SelectDesignation(mem, uid) ==
    {PyStr(m.designation) : m \in {x \in mem : x.slack_user_id = uid}}

\* SELECT member_id FROM members WHERE member_name ILIKE pattern
SelectMemberLike(mem, pattern) ==
    {m \in mem : LikeMatch(pattern, m.member_name)}

\* SELECT t.description, t.deadline FROM tasks t JOIN members m
\*   ON t.member_id = m.member_id WHERE m.member_name ILIKE pattern
SelectTasksLike(tsk, mem, pattern) ==
    SelectSeq(tsk, LAMBDA t :
        \E m \in mem : m.member_id = t.member_id /\ LikeMatch(pattern, m.member_name))

MeetingJoin(mt, tr) ==
    { [meeting_date |-> m.meeting_date, summary |-> t.transcription_summary] :
        <<m, t>> \in {p \in mt \X tr : p[1].transcription_id = p[2].transcription_id} }

RECURSIVE OrderByDateDesc(_)
OrderByDateDesc(rows) ==
    IF rows = {} THEN <<>>
    ELSE LET top == CHOOSE r \in rows : \A q \in rows : q.meeting_date <= r.meeting_date
         IN <<top>> \o OrderByDateDesc(rows \ {top})

\* SELECT m.meeting_date, t.transcription_summary FROM meetings m JOIN
\*   transcription t ON ... ORDER BY m.meeting_date DESC
SelectMeetings(mt, tr) == OrderByDateDesc(MeetingJoin(mt, tr))

\* what fetchone can return: any row of the result (no ORDER BY fixes which
\* comes first), None when there is none
FetchOne(result) == IF result = {} THEN {<<>>} ELSE {<<r>> : r \in result}

-----------------------------------------------------------------------------
(* State *)

VARIABLES
    members,        \* table members
    tasks,          \* table tasks, committed rows in insertion order
    meetings,       \* table meetings
    transcription,  \* table transcription
    nreq,           \* requests received so far
    req             \* the handler invocation in progress: its locals, its
                    \* connections, the responses it sent, what it did

vars == <<members, tasks, meetings, transcription, nreq, req>>

\* a response: which message of the code, and what it interpolates
Msg(tag, name, deadline, rows) ==
    [msg |-> tag, name |-> name, deadline |-> deadline, rows |-> rows]

NoRequest ==
    [handler |-> "none", pc |-> "idle", user |-> "U9", text |-> <<>>,
     raw |-> RawNotJson, ai |-> AiNone,
     auth |-> "unset", parts |-> <<>>,
     member_name |-> PyNone, description |-> PyNone, deadline |-> PyNone,
     today |-> 0, row |-> <<>>, rows |-> <<>>, pending |-> <<>>,
     open |-> {}, responses |-> <<>>, log |-> <<>>]

Init ==
    /\ members = AllMembers
    /\ tasks \in InitialTasks
    /\ \E mt \in MeetingTables :
          /\ meetings = mt.meetings
          /\ transcription = mt.transcription
    /\ nreq = 0
    /\ req = NoRequest

Finished == req.pc \in {"idle", "done", "raised"}

\* respond(...) / say(...)
Respond(r, m) ==
    [r EXCEPT !.responses = Append(@, m), !.log = Append(@, "respond")]

\* an exception leaves the handler: nothing after the raising statement runs
Raise(r, what) == [r EXCEPT !.pc = "raised", !.log = Append(@, what)]

Logged(r, ev) == [r EXCEPT !.log = Append(@, ev)]

\* conn = get_connection(); cur = conn.cursor()
Opened(r, c) == [r EXCEPT !.open = @ \cup {c}, !.log = Append(@, "connect")]

\* cur.close(); conn.close()
Closed(r, c) == [r EXCEPT !.open = @ \ {c}, !.log = Append(@, "close")]

Done(r) == [r EXCEPT !.pc = "done"]
Goto(r, label) == [r EXCEPT !.pc = label]

DbUnchanged == UNCHANGED <<members, tasks, meetings, transcription>>

-----------------------------------------------------------------------------
(* Requests arrive *)

ReceiveAssign ==
    /\ Finished /\ nreq < MaxRequests
    /\ \E u \in Users, txt \in AssignTexts :
          req' = [NoRequest EXCEPT !.handler = "assign_task", !.pc = "im_connect",
                                   !.user = u, !.text = txt]
    /\ nreq' = nreq + 1
    /\ DbUnchanged

ReceiveTasks ==
    /\ Finished /\ nreq < MaxRequests
    /\ \E u \in Users, txt \in TasksTexts :
          req' = [NoRequest EXCEPT !.handler = "fetch_tasks", !.pc = "t_connect",
                                   !.user = u, !.text = txt]
    /\ nreq' = nreq + 1
    /\ DbUnchanged

ReceiveMention ==
    /\ Finished /\ nreq < MaxRequests
    /\ \E u \in Users :
          req' = [NoRequest EXCEPT !.handler = "handle_mention", !.pc = "m_extract",
                                   !.user = u]
    /\ nreq' = nreq + 1
    /\ DbUnchanged

-----------------------------------------------------------------------------
(* is_manager *)

\* row and row[0].lower() == "manager"
IsManagerResult(row) ==
    IF row = <<>> THEN "None"
    ELSE IF LowerStr(row[1].s) = S_manager THEN "True" ELSE "False"

\* where is_manager returns to
AfterIsManager(handler) == IF handler = "assign_task" THEN "a_check" ELSE "m_check"

IsManagerConnect ==
    /\ req.pc = "im_connect"
    /\ \E ok \in BOOLEAN :
          req' = IF ok THEN Goto(Opened(req, "is_manager"), "im_select")
                 ELSE Raise(req, "error:connect")
    /\ UNCHANGED <<nreq>> /\ DbUnchanged

IsManagerSelect ==
    /\ req.pc = "im_select"
    /\ \E ok \in BOOLEAN, row \in FetchOne(SelectDesignation(members, req.user)) :
          req' = IF ok
                 THEN [Goto(Logged(req, "select_designation"), "im_close")
                          EXCEPT !.row = row]
                 ELSE Raise(req, "error:select_designation")
    /\ UNCHANGED <<nreq>> /\ DbUnchanged

IsManagerReturn ==
    /\ req.pc = "im_close"
    /\ req' = [Goto(Closed(req, "is_manager"), AfterIsManager(req.handler))
                  EXCEPT !.auth = IsManagerResult(req.row), !.row = <<>>]
    /\ UNCHANGED <<nreq>> /\ DbUnchanged

-----------------------------------------------------------------------------
(* /assign: assign_task *)

\* AssignDecide without the role check of lines 115-117
AssignDecide_NoRoleCheck(auth, text) ==
    LET parts == Split(text) IN
    IF Len(parts) < MinParts
    THEN [outcome |-> "usage", parts |-> parts,
          member_name |-> PyNone, description |-> PyNone, deadline |-> PyNone]
    ELSE [outcome |-> "go", parts |-> parts,
          member_name |-> PyStr(parts[1]),
          description |-> PyStr(Join(<<" ">>, SubSeq(parts, 2, Len(parts) - 1))),
          deadline |-> PyStr(parts[Len(parts)])]

\* AssignDecide with the description sliced parts[1:] instead of parts[1:-1]
AssignDecide_DescriptionToEnd(auth, text) ==
    LET parts == Split(text) IN
    IF auth /= "True"
    THEN [outcome |-> "reject", parts |-> <<>>,
          member_name |-> PyNone, description |-> PyNone, deadline |-> PyNone]
    ELSE IF Len(parts) < MinParts
    THEN [outcome |-> "usage", parts |-> parts,
          member_name |-> PyNone, description |-> PyNone, deadline |-> PyNone]
    ELSE [outcome |-> "go", parts |-> parts,
          member_name |-> PyStr(parts[1]),
          description |-> PyStr(Join(<<" ">>, SubSeq(parts, 2, Len(parts)))),
          deadline |-> PyStr(parts[Len(parts)])]

\* lines 115-127: the role check, then the split of command["text"]
AssignDecide(auth, text) ==
    LET parts == Split(text) IN
    IF auth /= "True"
    THEN [outcome |-> "reject", parts |-> <<>>,
          member_name |-> PyNone, description |-> PyNone, deadline |-> PyNone]
    ELSE IF Len(parts) < MinParts
    THEN [outcome |-> "usage", parts |-> parts,
          member_name |-> PyNone, description |-> PyNone, deadline |-> PyNone]
    ELSE [outcome |-> "go", parts |-> parts,
          member_name |-> PyStr(parts[1]),
          description |-> PyStr(Join(<<" ">>, SubSeq(parts, 2, Len(parts) - 1))),
          deadline |-> PyStr(parts[Len(parts)])]

AssignCheck ==
    /\ req.pc = "a_check"
    /\ LET d == AssignDecide(req.auth, req.text) IN
       req' = CASE d.outcome = "reject" ->
                     Done(Respond(req, Msg("OnlyManagers", PyNone, PyNone, <<>>)))
                [] d.outcome = "usage" ->
                     Done(Respond([req EXCEPT !.parts = d.parts],
                                  Msg("Usage", PyNone, PyNone, <<>>)))
                [] OTHER ->
                     [req EXCEPT !.pc = "a_connect", !.parts = d.parts,
                                 !.member_name = d.member_name,
                                 !.description = d.description,
                                 !.deadline = d.deadline]
    /\ UNCHANGED <<nreq>> /\ DbUnchanged

AssignConnect ==
    /\ req.pc = "a_connect"
    /\ \E ok \in BOOLEAN :
          req' = IF ok THEN Goto(Opened(req, "handler"), "a_lookup")
                 ELSE Raise(req, "error:connect")
    /\ UNCHANGED <<nreq>> /\ DbUnchanged

\* LookupStep returning on a miss without telling the user
LookupStep_SilentMiss(r, ok, row, next) ==
    IF ~ok THEN Raise(r, "error:select_member")
    ELSE IF row = <<>>
    THEN Done(Closed(Logged(r, "select_member"), "handler"))
    ELSE [Goto(Logged(r, "select_member"), next) EXCEPT !.row = row]

\* lines 132-145 and 290-303: the member lookup and what follows a miss
LookupStep(r, ok, row, next) ==
    IF ~ok THEN Raise(r, "error:select_member")
    ELSE IF row = <<>>
    THEN Done(Closed(Respond(Logged(r, "select_member"),
                             Msg("MemberNotFound", PyNone, PyNone, <<>>)),
                     "handler"))
    ELSE [Goto(Logged(r, "select_member"), next) EXCEPT !.row = row]

AssignLookup ==
    /\ req.pc = "a_lookup"
    /\ \E ok \in BOOLEAN,
          row \in FetchOne({m.member_id :
                     m \in SelectMemberLike(members, LikePattern(Format(req.member_name)))}) :
          req' = LookupStep(req, ok, row, "a_insert")
    /\ UNCHANGED <<nreq>> /\ DbUnchanged

\* InsertStep executing the INSERT twice
InsertStep_Twice(r, ok, next) ==
    IF ~ok THEN Raise(r, "error:insert")
    ELSE [Goto(Logged(r, "insert"), next)
             EXCEPT !.pending = <<Task(r.row[1], r.description, r.deadline),
                                  Task(r.row[1], r.description, r.deadline)>>]

\* lines 147-150 and 305-308: INSERT INTO tasks, not yet committed
InsertStep(r, ok, next) ==
    IF ~ok THEN Raise(r, "error:insert")
    ELSE [Goto(Logged(r, "insert"), next)
             EXCEPT !.pending = <<Task(r.row[1], r.description, r.deadline)>>]

AssignInsert ==
    /\ req.pc = "a_insert"
    /\ \E ok \in BOOLEAN : req' = InsertStep(req, ok, "a_commit")
    /\ UNCHANGED <<nreq>> /\ DbUnchanged

AssignCommit ==
    /\ req.pc = "a_commit"
    /\ \E ok \in BOOLEAN :
          IF ok
          THEN /\ tasks' = tasks \o req.pending
               /\ req' = Done(Respond(Closed(Logged([req EXCEPT !.pending = <<>>], "commit"),
                                             "handler"),
                                      Msg("TaskAssigned", req.member_name, PyNone, <<>>)))
          ELSE /\ tasks' = tasks
               /\ req' = Raise(req, "error:commit")
    /\ UNCHANGED <<nreq, members, meetings, transcription>>

-----------------------------------------------------------------------------
(* /tasks: fetch_tasks *)

\* the (description, deadline) columns of the rows
Columns(rows) ==
    [i \in 1..Len(rows) |->
        [description |-> rows[i].description, deadline |-> rows[i].deadline]]

TasksConnect ==
    /\ req.pc = "t_connect"
    /\ \E ok \in BOOLEAN :
          req' = IF ok
                 THEN [Goto(Opened(req, "handler"), "t_query")
                          EXCEPT !.member_name = PyStr(req.text)]
                 ELSE Raise(req, "error:connect")
    /\ UNCHANGED <<nreq>> /\ DbUnchanged

\* lines 170-188 and 221-240: the task query and the answer
TasksStep(r, ok, rows, none, some) ==
    IF ~ok THEN Raise(r, "error:select_tasks")
    ELSE Done(Closed(Respond([Logged(r, "select_tasks") EXCEPT !.rows = rows],
                             IF rows = <<>> THEN none ELSE some),
                     "handler"))

TasksQuery ==
    /\ req.pc = "t_query"
    /\ \E ok \in BOOLEAN :
          LET rows == SelectTasksLike(tasks, members, LikePattern(Format(req.member_name)))
          IN req' = TasksStep(req, ok, rows,
                              Msg("NoTasksFound", PyNone, PyNone, <<>>),
                              Msg("Tasks", PyNone, PyNone, Columns(rows)))
    /\ UNCHANGED <<nreq>> /\ DbUnchanged

-----------------------------------------------------------------------------
(* app_mention: handle_mention *)

\* lines 200-207: what the handler does with what extract_intent returned
MentionParse(ai) ==
    IF ~ai.truthy THEN "not_understood"
    ELSE IF ai.t /= "dict" THEN "attribute_error"
    ELSE "go"

MentionExtract ==
    /\ req.pc = "m_extract"
    /\ \/ req' = Raise(req, "error:groq")
       \/ \E raw \in RawResponses :
             LET ai == extract_intent(raw)
                 r == [Logged(req, "groq") EXCEPT !.raw = raw, !.ai = ai]
             IN req' = CASE MentionParse(ai) = "not_understood" ->
                              Done(Respond(r, Msg("CouldNotUnderstand", PyNone, PyNone, <<>>)))
                         [] MentionParse(ai) = "attribute_error" ->
                              Raise(r, "error:AttributeError")
                         [] OTHER ->
                              [r EXCEPT !.pc = "m_connect",
                                        !.member_name = ai.member_name,
                                        !.description = ai.description,
                                        !.deadline = ai.deadline]
    /\ UNCHANGED <<nreq>> /\ DbUnchanged

\* MentionDispatch sending the listing of tasks through the manager's branch
MentionDispatch_ViewTasksGated(intent, member_name) ==
    IF intent = PyStr(S_view_tasks) THEN "assign_task"
    ELSE IF intent = PyStr(S_view_meetings) THEN "view_meetings"
    ELSE IF intent = PyStr(S_assign_task) THEN "assign_task"
    ELSE "unknown"

\* lines 215-217, 245, 271 and 317: the branch the handler takes
MentionDispatch(intent, member_name) ==
    IF intent = PyStr(S_view_tasks)
    THEN IF ~Truthy(member_name) THEN "no_member" ELSE "view_tasks"
    ELSE IF intent = PyStr(S_view_meetings) THEN "view_meetings"
    ELSE IF intent = PyStr(S_assign_task) THEN "assign_task"
    ELSE "unknown"

MentionConnect ==
    /\ req.pc = "m_connect"
    /\ \E ok \in BOOLEAN :
          LET r == Opened(req, "handler")
              branch == MentionDispatch(req.ai.intent, req.member_name)
          IN req' = IF ~ok THEN Raise(req, "error:connect")
                    ELSE CASE branch = "no_member" ->
                                Done(Respond(r, Msg("SpecifyMember", PyNone, PyNone, <<>>)))
                           [] branch = "view_tasks" -> Goto(r, "m_tasks")
                           [] branch = "view_meetings" -> Goto(r, "m_meetings")
                           [] branch = "assign_task" -> Goto(r, "im_connect")
                           [] OTHER ->
                                Done(Respond(r, Msg("CouldNotDetermine", PyNone, PyNone, <<>>)))
    /\ UNCHANGED <<nreq>> /\ DbUnchanged

MentionTasks ==
    /\ req.pc = "m_tasks"
    /\ \E ok \in BOOLEAN :
          LET rows == SelectTasksLike(tasks, members, LikePattern(Format(req.member_name)))
          IN req' = TasksStep(req, ok, rows,
                              Msg("NoTasksFoundFor", req.member_name, PyNone, <<>>),
                              Msg("TasksFor", req.member_name, PyNone, Columns(rows)))
    /\ UNCHANGED <<nreq>> /\ DbUnchanged

MentionMeetings ==
    /\ req.pc = "m_meetings"
    /\ \E ok \in BOOLEAN :
          LET rows == SelectMeetings(meetings, transcription) IN
          req' = IF ~ok THEN Raise(req, "error:select_meetings")
                 ELSE Done(Closed(Respond([Logged(req, "select_meetings") EXCEPT !.rows = rows],
                                          IF rows = <<>>
                                          THEN Msg("NoMeetings", PyNone, PyNone, <<>>)
                                          ELSE Msg("Meetings", PyNone, PyNone, rows)),
                                  "handler"))
    /\ UNCHANGED <<nreq>> /\ DbUnchanged

\* MentionAssignDecide with the deadline resolved before the role check
MentionAssignDecide_ParseFirst(auth, member_name, description, deadline_text, today) ==
    LET parsed == Truthy(deadline_text)
        deadline == IF parsed THEN parse_deadline(deadline_text)
                    ELSE PyDate(today + DefaultDays)
        events == IF parsed THEN <<"parse_deadline">> ELSE <<"default_deadline">>
    IN IF auth /= "True"
       THEN [outcome |-> "reject", deadline |-> PyNone, events |-> events]
       ELSE IF ~Truthy(member_name) \/ ~Truthy(description)
       THEN [outcome |-> "incomplete", deadline |-> PyNone, events |-> events]
       ELSE IF ~Truthy(deadline)
       THEN [outcome |-> "bad_deadline", deadline |-> deadline, events |-> events]
       ELSE [outcome |-> "go", deadline |-> deadline, events |-> events]

\* MentionAssignDecide falling back to the default when the text does not parse
MentionAssignDecide_DefaultOnFailure(auth, member_name, description, deadline_text, today) ==
    IF auth /= "True"
    THEN [outcome |-> "reject", deadline |-> PyNone, events |-> <<>>]
    ELSE IF ~Truthy(member_name) \/ ~Truthy(description)
    THEN [outcome |-> "incomplete", deadline |-> PyNone, events |-> <<>>]
    ELSE LET parsed == Truthy(deadline_text) /\ Truthy(parse_deadline(deadline_text))
             deadline == IF parsed THEN parse_deadline(deadline_text)
                         ELSE PyDate(today + DefaultDays)
             events == IF parsed THEN <<"parse_deadline">> ELSE <<"default_deadline">>
         IN [outcome |-> "go", deadline |-> deadline, events |-> events]

\* MentionAssignDecide without the role check of lines 273-275
MentionAssignDecide_NoRoleCheck(auth, member_name, description, deadline_text, today) ==
    IF ~Truthy(member_name) \/ ~Truthy(description)
    THEN [outcome |-> "incomplete", deadline |-> PyNone, events |-> <<>>]
    ELSE LET parsed == Truthy(deadline_text)
             deadline == IF parsed THEN parse_deadline(deadline_text)
                         ELSE PyDate(today + DefaultDays)
             events == IF parsed THEN <<"parse_deadline">> ELSE <<"default_deadline">>
         IN IF ~Truthy(deadline)
            THEN [outcome |-> "bad_deadline", deadline |-> deadline, events |-> events]
            ELSE [outcome |-> "go", deadline |-> deadline, events |-> events]

\* MentionAssignDecide with the completeness check ahead of the role check
MentionAssignDecide_IncompleteFirst(auth, member_name, description, deadline_text, today) ==
    IF ~Truthy(member_name) \/ ~Truthy(description)
    THEN [outcome |-> "incomplete", deadline |-> PyNone, events |-> <<>>]
    ELSE IF auth /= "True"
    THEN [outcome |-> "reject", deadline |-> PyNone, events |-> <<>>]
    ELSE LET parsed == Truthy(deadline_text)
             deadline == IF parsed THEN parse_deadline(deadline_text)
                         ELSE PyDate(today + DefaultDays)
             events == IF parsed THEN <<"parse_deadline">> ELSE <<"default_deadline">>
         IN IF ~Truthy(deadline)
            THEN [outcome |-> "bad_deadline", deadline |-> deadline, events |-> events]
            ELSE [outcome |-> "go", deadline |-> deadline, events |-> events]

\* lines 273-288: the role check, the completeness check, the deadline
MentionAssignDecide(auth, member_name, description, deadline_text, today) ==
    IF auth /= "True"
    THEN [outcome |-> "reject", deadline |-> PyNone, events |-> <<>>]
    ELSE IF ~Truthy(member_name) \/ ~Truthy(description)
    THEN [outcome |-> "incomplete", deadline |-> PyNone, events |-> <<>>]
    ELSE LET parsed == Truthy(deadline_text)
             deadline == IF parsed THEN parse_deadline(deadline_text)
                         ELSE PyDate(today + DefaultDays)
             events == IF parsed THEN <<"parse_deadline">> ELSE <<"default_deadline">>
         IN IF ~Truthy(deadline)
            THEN [outcome |-> "bad_deadline", deadline |-> deadline, events |-> events]
            ELSE [outcome |-> "go", deadline |-> deadline, events |-> events]

MentionCheck ==
    /\ req.pc = "m_check"
    /\ \E today \in TodayReadings :
          LET d == MentionAssignDecide(req.auth, req.member_name, req.description,
                                       req.deadline, today)
              r == [req EXCEPT !.log = @ \o d.events,
                               !.today = IF d.events = <<"default_deadline">>
                                         THEN today ELSE 0]
          IN req' = CASE d.outcome = "reject" ->
                           Done(Respond(r, Msg("OnlyManagers", PyNone, PyNone, <<>>)))
                      [] d.outcome = "incomplete" ->
                           Done(Respond(r, Msg("Incomplete", PyNone, PyNone, <<>>)))
                      [] d.outcome = "bad_deadline" ->
                           Done(Respond(r, Msg("BadDeadline", PyNone, PyNone, <<>>)))
                      [] OTHER ->
                           [r EXCEPT !.pc = "m_lookup", !.deadline = d.deadline]
    /\ UNCHANGED <<nreq>> /\ DbUnchanged

MentionLookup ==
    /\ req.pc = "m_lookup"
    /\ \E ok \in BOOLEAN,
          row \in FetchOne({m.member_id :
                     m \in SelectMemberLike(members, LikePattern(Format(req.member_name)))}) :
          req' = LookupStep(req, ok, row, "m_insert")
    /\ UNCHANGED <<nreq>> /\ DbUnchanged

MentionInsert ==
    /\ req.pc = "m_insert"
    /\ \E ok \in BOOLEAN : req' = InsertStep(req, ok, "m_commit")
    /\ UNCHANGED <<nreq>> /\ DbUnchanged

MentionCommit ==
    /\ req.pc = "m_commit"
    /\ \E ok \in BOOLEAN :
          IF ok
          THEN /\ tasks' = tasks \o req.pending
               /\ req' = Done(Respond(Closed(Logged([req EXCEPT !.pending = <<>>], "commit"),
                                             "handler"),
                                      Msg("TaskAssignedDeadline", req.member_name,
                                          req.deadline, <<>>)))
          ELSE /\ tasks' = tasks
               /\ req' = Raise(req, "error:commit")
    /\ UNCHANGED <<nreq, members, meetings, transcription>>

-----------------------------------------------------------------------------
(* The members table is maintained by others *)

MemberDeleted ==
    /\ \E m \in members : members' = members \ {m}
    /\ UNCHANGED <<tasks, meetings, transcription, nreq, req>>

-----------------------------------------------------------------------------

Next ==
    \/ ReceiveAssign \/ ReceiveTasks \/ ReceiveMention
    \/ IsManagerConnect \/ IsManagerSelect \/ IsManagerReturn
    \/ AssignCheck \/ AssignConnect \/ AssignLookup \/ AssignInsert \/ AssignCommit
    \/ TasksConnect \/ TasksQuery
    \/ MentionExtract \/ MentionConnect \/ MentionTasks \/ MentionMeetings
    \/ MentionCheck \/ MentionLookup \/ MentionInsert \/ MentionCommit
    \/ MemberDeleted

Spec == Init /\ [][Next]_vars

-----------------------------------------------------------------------------
(* What a request did *)

HasEvent(e) == \E i \in DOMAIN req.log : req.log[i] = e

\* e1 was logged, and before the first e2
Before(e1, e2) ==
    \E i \in DOMAIN req.log :
        /\ req.log[i] = e1
        /\ \A j \in 1..i : req.log[j] /= e2

DatastoreEvents ==
    {"connect", "select_designation", "select_member", "select_tasks",
     "select_meetings", "insert", "commit", "close"}

DatastoreErrors ==
    {"error:connect", "error:select_designation", "error:select_member",
     "error:select_tasks", "error:select_meetings", "error:insert", "error:commit"}

TouchedDatastore == \E e \in DatastoreEvents \cup DatastoreErrors : HasEvent(e)

DatastoreFailed == \E e \in DatastoreErrors : HasEvent(e)

\* the request ended with exactly this one response
EndedWith(tag) ==
    /\ req.pc = "done"
    /\ Len(req.responses) = 1
    /\ req.responses[1].msg = tag

IsMentionAssign ==
    /\ req.handler = "handle_mention"
    /\ req.ai.t = "dict" /\ req.ai.truthy
    /\ req.ai.intent = PyStr(S_assign_task)

-----------------------------------------------------------------------------
(* C1: when a handler returns, whatever the exit path, every datastore
   connection the request opened has been closed. *)
C1_ConnectionsClosedOnReturn == req.pc = "done" => req.open = {}

(* C2: a task is inserted only by a request whose is_manager check of the
   acting user ran before the insert and returned true; a request whose check
   did not return true inserts nothing. *)
C2_InsertOnlyAfterManagerCheck ==
    (HasEvent("insert") \/ HasEvent("commit") \/ req.pending /= <<>>)
        => /\ req.auth = "True"
           /\ Before("select_designation", "insert")
           /\ \E m \in AllMembers :
                 /\ m.slack_user_id = req.user
                 /\ LowerStr(m.designation) = S_manager

C2_Witness ==
    /\ req.handler = "assign_task"
    /\ req.pc = "done"
    /\ HasEvent("commit")
    /\ req.auth = "True"

(* C3: a mention with intent assign_task from a user who is not a manager
   ends with the authorization-rejected response, and neither a deadline is
   resolved (parsed or defaulted) nor a member lookup executed before it. *)
C3_RejectedBeforeResolution ==
    (IsMentionAssign /\ req.auth \in {"None", "False"})
        => /\ ~HasEvent("parse_deadline")
           /\ ~HasEvent("default_deadline")
           /\ ~HasEvent("select_member")
           /\ req.today = 0
           /\ req.pc = "m_check" \/ EndedWith("OnlyManagers")

C3_Witness ==
    /\ IsMentionAssign
    /\ req.auth = "False"
    /\ Truthy(req.ai.member_name) /\ Truthy(req.ai.description)
    /\ Truthy(req.ai.deadline)
    /\ EndedWith("OnlyManagers")

(* C4: every row added to tasks carries the member_id of a member that
   exists when the row is added, also when the members table changes between
   the request's lookup and its insert. *)
C4_InsertReferencesExistingMember ==
    [][\A i \in (Len(tasks) + 1)..Len(tasks') :
          \E m \in members' : m.member_id = tasks'[i].member_id]_vars

(* C5: an /assign command with fewer than 3 tokens ends with the usage error,
   whoever the acting user is, and touches the datastore at no point. *)
C5_UsageErrorWithoutDatastore ==
    (req.handler = "assign_task" /\ Len(Split(req.text)) < 3)
        => /\ ~TouchedDatastore
           /\ req.open = {}
           /\ req.pc \in {"done", "raised"} => EndedWith("Usage")

(* C6: through /assign the last token is resolved to a calendar date before
   any insert: a manager's command of at least 3 tokens whose last token is no
   intelligible date ends with the deadline error and inserts nothing, so no
   row goes in with the raw token as its deadline. *)
C6_AssignDeadlineIsResolvedDate ==
    (/\ req.handler = "assign_task"
     /\ req.auth = "True"
     /\ Len(Split(req.text)) >= 3
     /\ parse_deadline(PyStr(Split(req.text)[Len(Split(req.text))])) = PyNone)
        =>        /\ ~HasEvent("insert")
                  /\ \A i \in DOMAIN req.pending : req.pending[i].deadline.t = "date"
                  /\ req.pc = "done" => EndedWith("BadDeadline")

(* C7: in a manager's assign_task mention with a member name and a
   description, deadline text that is given and does not parse ends the
   request with the deadline error, without the default being computed and
   without an insert; with the deadline text empty or absent the inserted
   deadline is the day read from the clock plus 3. *)
C7_DeadlineFailsOrDefaults ==
    (/\ IsMentionAssign
     /\ req.auth = "True"
     /\ Truthy(req.ai.member_name) /\ Truthy(req.ai.description))
        => /\ (Truthy(req.ai.deadline) /\ parse_deadline(req.ai.deadline) = PyNone)
                => /\ ~HasEvent("default_deadline")
                   /\ ~HasEvent("insert")
                   /\ req.pending = <<>>
                   /\ req.pc = "m_check" \/ EndedWith("BadDeadline")
           /\ ~Truthy(req.ai.deadline)
                => /\ req.pc /= "m_check" => req.today \in TodayReadings
                   /\ \A i \in DOMAIN req.pending :
                         req.pending[i].deadline = PyDate(req.today + 3)
                   /\ HasEvent("commit")
                         => tasks[Len(tasks)].deadline = PyDate(req.today + 3)

C7_Witness ==
    /\ IsMentionAssign
    /\ req.auth = "True"
    /\ Truthy(req.ai.member_name) /\ Truthy(req.ai.description)
    /\ Truthy(req.ai.deadline) /\ parse_deadline(req.ai.deadline) = PyNone
    /\ EndedWith("BadDeadline")

(* C8: when the language service returns text that is not JSON, the mention
   ends with the parse-failure response and the request opens no connection
   and executes no query. *)
C8_NotJsonNoDatastore ==
    (req.handler = "handle_mention" /\ HasEvent("groq") /\ ~req.raw.json)
        => /\ EndedWith("CouldNotUnderstand")
           /\ ~TouchedDatastore
           /\ req.open = {}

C8_Witness ==
    /\ req.handler = "handle_mention"
    /\ HasEvent("groq") /\ ~req.raw.json
    /\ req.pc = "done"

(* C9: when the language service's text decodes as JSON but carries no
   intent among assign_task, view_tasks, view_meetings (a value that is no
   object included), and the datastore does not fail, the mention ends with
   exactly one failure response and runs no lookup, query or insert. *)
C9_NoIntentOneFailureResponse ==
    (/\ req.handler = "handle_mention"
     /\ HasEvent("groq") /\ req.raw.json
     /\ req.ai.intent \notin {PyStr(S_assign_task), PyStr(S_view_tasks), PyStr(S_view_meetings)}
     /\ ~DatastoreFailed)
        => /\ \A e \in {"select_designation", "select_member", "select_tasks",
                        "select_meetings", "insert", "commit"} : ~HasEvent(e)
           /\ req.pc /= "raised"
           /\ req.pc = "done"
                 => /\ Len(req.responses) = 1
                    /\ req.responses[1].msg \in {"CouldNotUnderstand", "CouldNotDetermine"}

(* C10: when a datastore operation of a request fails, the request ends with
   exactly one generic failure response, persists no task and releases the
   connections it opened. *)
C10_DatastoreFailureHandled ==
    DatastoreFailed
        => /\ Len(req.responses) = 1
           /\ req.responses[1].msg = "GenericFailure"
           /\ req.open = {}
           /\ tasks \in InitialTasks


-----------------------------------------------------------------------------
(* What an assign request asks for, read off its input *)

IsAssignRequest ==
    \/ req.handler = "assign_task"
    \/ IsMentionAssign

RequestedFragment ==
    IF req.handler = "assign_task" THEN Split(req.text)[1]
    ELSE Format(req.ai.member_name)

RequestedDescription ==
    IF req.handler = "assign_task"
    THEN PyStr(Join(<<" ">>, SubSeq(Split(req.text), 2, Len(Split(req.text)) - 1)))
    ELSE req.ai.description

RequestedDeadline ==
    IF req.handler = "assign_task"
    THEN PyStr(Split(req.text)[Len(Split(req.text))])
    ELSE IF Truthy(req.ai.deadline) THEN parse_deadline(req.ai.deadline)
    ELSE PyDate(req.today + 3)

SuccessTags == {"TaskAssigned", "TaskAssignedDeadline"}

(* C11: a successful assign request adds exactly one row to tasks, with the
   member_id the lookup returned, the request's description and its deadline,
   and leaves every other row and table alone; a step of a request that does
   not end it in success changes no table. *)
C11_OneRowOnSuccessElseNothing ==
    [][/\ meetings' = meetings
       /\ transcription' = transcription
       /\ req' /= req => members' = members
       /\ tasks' /= tasks
            => /\ IsAssignRequest
               /\ Len(tasks') = Len(tasks) + 1
               /\ SubSeq(tasks', 1, Len(tasks)) = tasks
               /\ tasks'[Len(tasks')] =
                     Task(req.row[1], RequestedDescription, RequestedDeadline)
               /\ \E m \in AllMembers :
                     /\ m.member_id = req.row[1]
                     /\ LikeMatch(LikePattern(RequestedFragment), m.member_name)
               /\ req'.pc = "done"
               /\ Len(req'.responses) = 1
               /\ req'.responses[1].msg \in SuccessTags
       /\ (req'.pc = "done" /\ req.pc /= "done" /\ tasks' = tasks)
            => \A i \in DOMAIN req'.responses : req'.responses[i].msg \notin SuccessTags
      ]_vars

C11_Witness ==
    /\ IsMentionAssign
    /\ EndedWith("TaskAssignedDeadline")
    /\ Len(tasks) = 3
    /\ tasks[3] = Task(2, PyStr(<<"f","x">>), PyDate(7))


(* C12: an assign request from a user who is not a manager gets the same
   response and has the same effects whether or not the member it names
   exists: the response is the fixed rejection, which interpolates nothing,
   and the request neither looks the member up nor inserts. *)
C12_RejectionIndependentOfTarget ==
    (IsAssignRequest /\ req.auth \in {"None", "False"})
        => /\ ~HasEvent("select_member")
           /\ ~HasEvent("insert")
           /\ req.pending = <<>>
           /\ req.pc \in {"a_check", "m_check", "done"}
           /\ req.pc = "done"
                 => req.responses = <<Msg("OnlyManagers", PyNone, PyNone, <<>>)>>

\* the rejected request named a member that does not exist
C12_Witness ==
    /\ req.handler = "assign_task"
    /\ req.auth = "False"
    /\ Len(Split(req.text)) >= 3
    /\ SelectMemberLike(AllMembers, LikePattern(Split(req.text)[1])) = {}
    /\ EndedWith("OnlyManagers")


\* the rows the member lookup of the request in progress can hand to fetchone
LookupResult ==
    {m.member_id : m \in SelectMemberLike(members, LikePattern(Format(req.member_name)))}

(* C13: when several members match the name fragment of an assign request,
   which member gets the task is fixed by the request and the members table:
   at the lookup there is one row that fetchone can return, whatever order
   the datastore lists the matching rows in. *)
C13_LookupChoiceDetermined ==
    req.pc \in {"a_lookup", "m_lookup"} => Cardinality(FetchOne(LookupResult)) = 1

(* C14: a task listing for a member reference that is not empty is scoped to
   one member: all the rows it returns belong to the same member, also when
   the fragment matches several members. *)
C14_ListingOfOneMember ==
    (HasEvent("select_tasks") /\ Truthy(req.member_name))
        => \A i, j \in DOMAIN req.rows : req.rows[i].member_id = req.rows[j].member_id

(* C15: a task listing with an empty member reference (a view_tasks mention
   with member_name empty or missing, a /tasks command with empty text) runs
   no task query and ends asking for the member to be specified. *)
C15_EmptyReferenceNoListing ==
    (\/ req.handler = "fetch_tasks" /\ req.text = <<>>
     \/ /\ req.handler = "handle_mention"
        /\ req.ai.intent = PyStr(S_view_tasks)
        /\ ~Truthy(req.ai.member_name))
        => /\ ~HasEvent("select_tasks")
           /\ req.pc = "done" => EndedWith("SpecifyMember")


\* the answer to a view_tasks or view_meetings mention, as a function of the
\* parsed fields and the tables alone
ViewAnswer(ai, tsk, mem, mt, tr) ==
    IF ai.intent = PyStr(S_view_tasks)
    THEN IF ~Truthy(ai.member_name)
         THEN Msg("SpecifyMember", PyNone, PyNone, <<>>)
         ELSE LET rows == SelectTasksLike(tsk, mem, LikePattern(Format(ai.member_name)))
              IN IF rows = <<>>
                 THEN Msg("NoTasksFoundFor", ai.member_name, PyNone, <<>>)
                 ELSE Msg("TasksFor", ai.member_name, PyNone, Columns(rows))
    ELSE LET rows == SelectMeetings(mt, tr)
         IN IF rows = <<>>
            THEN Msg("NoMeetings", PyNone, PyNone, <<>>)
            ELSE Msg("Meetings", PyNone, PyNone, rows)

(* C16: a mention with intent view_tasks or view_meetings is served whatever
   the acting user's role: is_manager is not called for it, and the one
   response it ends with is determined by the parsed fields and the tables as
   they are when it answers, not by who asks. *)
C16_ViewsServedWhateverTheRole ==
    [][(/\ req'.handler = "handle_mention"
        /\ req'.ai.intent \in {PyStr(S_view_tasks), PyStr(S_view_meetings)})
           => /\ req'.auth = "unset"
              /\ "is_manager" \notin req'.open
              /\ \A i \in DOMAIN req'.log :
                    req'.log[i] \notin {"select_designation", "error:select_designation"}
              /\ (req'.pc = "done" /\ req.pc /= "done")
                    => req'.responses =
                          <<ViewAnswer(req'.ai, tasks, members, meetings, transcription)>>
      ]_vars

\* somebody with no member record got a list of tasks
C16_Witness ==
    /\ req.handler = "handle_mention"
    /\ req.ai.intent = PyStr(S_view_tasks)
    /\ req.user = "U9"
    /\ EndedWith("TasksFor")
    /\ req.responses[1].rows /= <<>>


\* the member records with this slack_user_id
RecordsOf(uid) == {m \in members : m.slack_user_id = uid}

(* C17: is_manager returns true exactly when the SELECT found a record of the
   acting user whose designation is "manager" whatever its case, returns the
   value false otherwise, in particular when there is no record, and writes
   nothing. *)
C17_IsManagerTrueOrFalse ==
    [][/\ (req.pc = "im_select" /\ req'.pc = "im_close")
            => /\ RecordsOf(req.user) = {} => req'.row = <<>>
               /\ RecordsOf(req.user) /= {}
                     => \E m \in RecordsOf(req.user) : req'.row = <<PyStr(m.designation)>>
       /\ (req.pc = "im_close" /\ req'.pc /= "im_close")
            => req'.auth = IF req.row /= <<>> /\ LowerStr(req.row[1].s) = S_manager
                           THEN "True" ELSE "False"
       /\ (req.pc \in {"im_connect", "im_select", "im_close"} /\ req' /= req)
            => /\ UNCHANGED <<members, tasks, meetings, transcription>>
               /\ req'.pending = <<>>
      ]_vars


\* the characters of s that are not whitespace, in order
NonSpace(s) == SelectSeq(s, LAMBDA c : c \notin Whitespace)

\* s has no whitespace at either end and no two whitespace characters in a row
SingleSpaced(s) ==
    /\ s /= <<>> => Head(s) \notin Whitespace /\ s[Len(s)] \notin Whitespace
    /\ \A i \in 1..(Len(s) - 1) : ~(s[i] \in Whitespace /\ s[i + 1] \in Whitespace)

(* C18: for an /assign text of at least 3 tokens the member reference is the
   first token, the deadline the last, and the description the tokens between
   them joined by single spaces: it is not empty, runs of whitespace of the
   input are collapsed, and no other character is lost or added. *)
C18_AssignGrammar ==
    (/\ req.handler = "assign_task"
     /\ req.auth = "True"
     /\ req.pc /= "a_check"
     /\ Len(Split(req.text)) >= 3)
        => LET parts == Split(req.text)
               n == Len(parts)
           IN /\ req.member_name = PyStr(parts[1])
              /\ req.deadline = PyStr(parts[n])
              /\ req.description = PyStr(Join(<<" ">>, SubSeq(parts, 2, n - 1)))
              /\ req.description.s /= <<>>
              /\ SingleSpaced(req.description.s)
              /\ NonSpace(req.member_name.s) = req.member_name.s
              /\ NonSpace(req.deadline.s) = req.deadline.s
              /\ NonSpace(req.member_name.s \o req.description.s \o req.deadline.s)
                    = NonSpace(req.text)

\* a text of four tokens with runs of whitespace and a trailing blank
C18_Witness ==
    /\ req.handler = "assign_task"
    /\ req.pc = "done"
    /\ Len(Split(req.text)) = 4
    /\ ~SingleSpaced(req.text)
    /\ req.member_name = PyStr(<<"a","y">>)
    /\ req.description = PyStr(<<"f","x"," ","u","p">>)
    /\ req.deadline = PyStr(<<"7">>)


(* C19: a handler invocation that runs to completion has sent exactly one
   response: none is sent before the handler's last step, and none twice. *)
C19_ExactlyOneResponse ==
    /\ Len(req.responses) <= 1
    /\ req.pc = "done" => Len(req.responses) = 1
    /\ req.pc /= "done" => Len(req.responses) = 0
    /\ Cardinality({i \in DOMAIN req.log : req.log[i] = "respond"}) = Len(req.responses)

C19_Witness ==
    /\ req.handler = "assign_task"
    /\ HasEvent("select_member")
    /\ EndedWith("MemberNotFound")

\* the error an assign_task mention must report, by the order of the checks;
\* "none" when no check fails before the member lookup
FirstFailingCheck ==
    IF req.auth /= "True" THEN "OnlyManagers"
    ELSE IF ~Truthy(req.ai.member_name) \/ ~Truthy(req.ai.description) THEN "Incomplete"
    ELSE IF Truthy(req.ai.deadline) /\ parse_deadline(req.ai.deadline) = PyNone
    THEN "BadDeadline"
    ELSE "none"

(* C20: in an assign_task mention the checks run in the order not a manager,
   incomplete details, unintelligible deadline, member not found, and the
   first that fails is the one error reported; when one of the first three
   fails no member lookup is made, so an unintelligible deadline with an
   unknown member reports the deadline error. *)
C20_FirstFailingCheckReported ==
    (IsMentionAssign /\ req.auth /= "unset" /\ req.pc /= "m_check")
        => /\ FirstFailingCheck /= "none"
                => /\ EndedWith(FirstFailingCheck)
                   /\ ~HasEvent("select_member")
                   /\ ~HasEvent("error:select_member")
           /\ (FirstFailingCheck = "none" /\ req.pc = "done")
                => /\ HasEvent("select_member")
                   /\ \/ EndedWith("MemberNotFound") /\ ~HasEvent("insert")
                      \/ EndedWith("TaskAssignedDeadline") /\ HasEvent("commit")

\* a manager's mention with an unintelligible deadline and an unknown member
C20_Witness ==
    /\ IsMentionAssign
    /\ req.auth = "True"
    /\ req.ai.description = PyStr(<<"f","x">>)
    /\ req.ai.deadline = PyStr(<<"x">>)
    /\ SelectMemberLike(AllMembers, LikePattern(Format(req.ai.member_name))) = {}
    /\ Truthy(req.ai.member_name)
    /\ EndedWith("BadDeadline")

====
